---- MODULE Spec2Model ----
(***************************************************************************)
(* Model of the Bare Conductive on-board MIDI piano sketch                 *)
(* (src/Midi_Piano/Midi_Piano.ino).  The file holds two sketches: the      *)
(* older one (lines 1-286: interrupt-gated loop, whiteNotes, an initial    *)
(* updateTouchData in setup) and the newer one (lines 288-506: polling     *)
(* loop, MELODIC_NOTES / PERCUSSION_NOTES, MELODIC_INSTRUMENT).  The       *)
(* variable sketch says which of the two is running; definitions of the    *)
(* older sketch carry the suffix _v1.                                      *)
(*                                                                         *)
(* The MIDI byte sink (mySerial), the indicator LED and the Serial log are *)
(* write-only for the program.  The model records, in events, everything   *)
(* the most recent handler (setup or one call of loop) did to them, in     *)
(* order: an event is <<kind, value, i>>, i being the value of the loop    *)
(* variable i when it happened (-1 outside the for loop).                  *)
(***************************************************************************)
EXTENDS Integers, Sequences, FiniteSets, TLC

\* ------------------------------------------------------------------ bounds
\* The environment touches at most MaxKeys distinct electrodes in one run.
MaxKeys == 2

\* --------------------------------------------------------------- constants
firstPin == 0
lastPin == 11
HIGH == 1
LOW == 0

Electrodes == firstPin..lastPin

whiteNotes == <<60, 62, 64, 65, 67, 69, 71, 72, 74, 76, 77, 79, 81>>
MELODIC_NOTES == <<60, 61, 62, 63, 64, 65, 66, 67, 68, 69, 70, 71>>
PERCUSSION_NOTES == <<49, 35, 57, 36, 41, 51, 43, 28, 27, 83, 76, 58>>
MPR121_DATASTREAM_ENABLE == FALSE

\* C arrays are indexed from 0.
At(arr, idx) == arr[idx + 1]

\* A value stored in a byte / uint8_t parameter.
Byte(x) == x % 256

\* The C operators & and | on non-negative integers.
RECURSIVE BitAnd(_, _)
BitAnd(a, b) ==
  IF a = 0 \/ b = 0 THEN 0
  ELSE (a % 2) * (b % 2) + 2 * BitAnd(a \div 2, b \div 2)

RECURSIVE BitOr(_, _)
BitOr(a, b) ==
  IF a = 0 THEN b
  ELSE IF b = 0 THEN a
  ELSE (IF a % 2 = 1 \/ b % 2 = 1 THEN 1 ELSE 0) + 2 * BitOr(a \div 2, b \div 2)

\* ------------------------------------------------------------------- state
VARIABLES
  sketch,              \* 1: the older sketch, 2: the newer sketch
  MELODIC_INSTRUMENT,  \* the configured mode (TRUE: melodic, FALSE: percussion)
  INSTRUMENT,          \* the configured program number
  keys,                \* the electrodes the environment touches in this run
  pc,                  \* "setup", "halted" (while(1) in setup), "loop"; "call", "done"
  touchData,           \* MPR121: electrodes touched at the latest read
  lastTouchData,       \* MPR121: electrodes touched at the read before
  note,                \* the global note
  led,                 \* level of the indicator pin
  events,              \* what the most recent handler wrote, in order
  op,                  \* the most recent handler: "none", "setup", "pass", "skip", or an encoder call
  pass,                \* dispatch passes so far: "none", "first" (exactly one), "later"
  call,                \* the encoder call under test (encoder specification only)
  head,                \* the first bytes the MIDI sink received since power-on (at most 8)
  scan,                \* <<i, table index>> of each iteration of the most recent handler's for loop
  twin,                \* the tracker and last pass of an ungated loop run beside the gated one
  heard                \* what the synthesizer has been sent since power-on (see Silence)

vars == <<sketch, MELODIC_INSTRUMENT, INSTRUMENT, keys, pc, touchData,
          lastTouchData, note, led, events, op, pass, call, head, scan, twin, heard>>

\* The machine a handler starts from: nothing written yet.
Machine == [events |-> <<>>, led |-> led, note |-> note, i |-> -1, scan |-> <<>>]

\* The bytes among the events ev, in order.
Sink(ev) ==
  LET s == SelectSeq(ev, LAMBDA x : x[1] = "tx")
  IN  [k \in 1..Len(s) |-> s[k][2]]

\* The sink's first bytes after a handler that wrote the events ev.
HeadAfter(ev) ==
  IF Len(head) >= 8 THEN head
  ELSE LET s == head \o Sink(ev)
       IN  SubSeq(s, 1, IF Len(s) < 8 THEN Len(s) ELSE 8)

\* ----------------------------------------------------------------- encoder
digitalWrite(st, level) ==
  [st EXCEPT !.led = level, !.events = Append(@, <<"led", level, st.i>>)]

write(st, b) == [st EXCEPT !.events = Append(@, <<"tx", Byte(b), st.i>>)]

print(st, kind, n) == [st EXCEPT !.events = Append(@, <<kind, n, st.i>>)]

\* talkMIDI with the boundary test written < instead of <=.
talkMIDI_strict(st, cmd, data1, data2) ==
  LET s1 == digitalWrite(st, HIGH)
      s2 == write(s1, Byte(cmd))
      s3 == write(s2, Byte(data1))
      s4 == IF BitAnd(Byte(cmd), 240) < 176 THEN write(s3, Byte(data2)) ELSE s3
  IN  digitalWrite(s4, LOW)

\* talkMIDI raising the indicator only after the status byte is written.
talkMIDI_ledLate(st, cmd, data1, data2) ==
  LET s1 == write(st, Byte(cmd))
      s2 == digitalWrite(s1, HIGH)
      s3 == write(s2, Byte(data1))
      s4 == IF BitAnd(Byte(cmd), 240) <= 176 THEN write(s3, Byte(data2)) ELSE s3
  IN  digitalWrite(s4, LOW)

talkMIDI(st, cmd, data1, data2) ==
  LET s1 == digitalWrite(st, HIGH)
      s2 == write(s1, Byte(cmd))
      s3 == write(s2, Byte(data1))
      s4 == IF BitAnd(Byte(cmd), 240) <= 176 THEN write(s3, Byte(data2)) ELSE s3
  IN  digitalWrite(s4, LOW)

\* noteOn with the channel placed in the high nibble.
noteOn_shifted(st, channel, n, attack_velocity) ==
  talkMIDI(st, BitOr(144, Byte(channel * 16)), n, attack_velocity)

\* noteOn combining status and channel with & instead of |.
noteOn_and(st, channel, n, attack_velocity) ==
  talkMIDI(st, BitAnd(144, Byte(channel)), n, attack_velocity)

noteOn(st, channel, n, attack_velocity) ==
  talkMIDI(st, BitOr(144, Byte(channel)), n, attack_velocity)

\* noteOff sent as a note-on of velocity 0.
noteOff_asOn(st, channel, n, release_velocity) ==
  talkMIDI(st, BitOr(144, Byte(channel)), n, 0)

noteOff(st, channel, n, release_velocity) ==
  talkMIDI(st, BitOr(128, Byte(channel)), n, release_velocity)

\* setupMidi with the program change sent before the bank select.
setupMidi_programFirst(st, melodic, instrument) ==
  LET s1 == talkMIDI(st, 176, 7, 127)
      s2 == talkMIDI(s1, 192, instrument, 0)
  IN  IF melodic THEN talkMIDI(s2, 176, 0, 0) ELSE talkMIDI(s2, 176, 0, 120)

setupMidi(st, melodic, instrument) ==
  LET s1 == talkMIDI(st, 176, 7, 127)
      s2 == IF melodic THEN talkMIDI(s1, 176, 0, 0) ELSE talkMIDI(s1, 176, 0, 120)
  IN  talkMIDI(s2, 192, instrument, 0)

setupMidi_v1(st) ==
  LET s1 == talkMIDI(st, 176, 7, 127)
      s2 == talkMIDI(s1, 176, 0, 0)
  IN  talkMIDI(s2, 192, 4, 0)

\* ----------------------------------------------------- touch sensor (MPR121)
\* MPR121.updateTouchData / updateAll: the latest read becomes the retained one
\* and the sensor's touch status m becomes the latest read.
updateTouchData(td, m) == [touchData |-> m, lastTouchData |-> td.touchData]

isNewTouch(td, i) == i \in td.touchData /\ i \notin td.lastTouchData

isNewRelease(td, i) == i \notin td.touchData /\ i \in td.lastTouchData

\* The tracker's state; the library constructs it with nothing touched and
\* nothing retained (Init).
MPR121 == [touchData |-> touchData, lastTouchData |-> lastTouchData]

\* ------------------------------------------------------------------- loop
\* body reading the note tables without the reversal.
body_noReversal(st, i, td, melodic) ==
  LET n  == IF melodic THEN At(MELODIC_NOTES, i) ELSE At(PERCUSSION_NOTES, i)
      s0 == [st EXCEPT !.note = n, !.i = i, !.scan = Append(@, <<i, i>>)]
  IN  IF isNewTouch(td, i) THEN print(noteOn(s0, 0, n, 96), "on", n)
        ELSE IF isNewRelease(td, i) THEN print(noteOff(s0, 0, n, 96), "off", n)
        ELSE s0

\* body sending note-on on the touch level instead of the touch edge.
body_level(st, i, td, melodic) ==
  LET n  == IF melodic THEN At(MELODIC_NOTES, 11 - i) ELSE At(PERCUSSION_NOTES, 11 - i)
      s0 == [st EXCEPT !.note = n, !.i = i, !.scan = Append(@, <<i, 11 - i>>)]
  IN  IF i \in td.touchData THEN print(noteOn(s0, 0, n, 96), "on", n)
        ELSE IF isNewRelease(td, i) THEN print(noteOff(s0, 0, n, 96), "off", n)
        ELSE s0

\* body ending every new note at once (note-on followed by note-off).
body_oneShot(st, i, td, melodic) ==
  LET n  == IF melodic THEN At(MELODIC_NOTES, 11 - i) ELSE At(PERCUSSION_NOTES, 11 - i)
      s0 == [st EXCEPT !.note = n, !.i = i, !.scan = Append(@, <<i, 11 - i>>)]
  IN  IF isNewTouch(td, i)
          THEN print(noteOff(print(noteOn(s0, 0, n, 96), "on", n), 0, n, 96), "off", n)
        ELSE IF isNewRelease(td, i) THEN print(noteOff(s0, 0, n, 96), "off", n)
        ELSE s0

\* body sending note-off whenever the electrode was touched at the previous
\* poll, instead of on the release edge.
body_offPrevious(st, i, td, melodic) ==
  LET n  == IF melodic THEN At(MELODIC_NOTES, 11 - i) ELSE At(PERCUSSION_NOTES, 11 - i)
      s0 == [st EXCEPT !.note = n, !.i = i, !.scan = Append(@, <<i, 11 - i>>)]
  IN  IF isNewTouch(td, i) THEN print(noteOn(s0, 0, n, 96), "on", n)
        ELSE IF i \in td.lastTouchData THEN print(noteOff(s0, 0, n, 96), "off", n)
        ELSE s0

\* body making no report of a release.
body_silentOff(st, i, td, melodic) ==
  LET n  == IF melodic THEN At(MELODIC_NOTES, 11 - i) ELSE At(PERCUSSION_NOTES, 11 - i)
      s0 == [st EXCEPT !.note = n, !.i = i, !.scan = Append(@, <<i, 11 - i>>)]
  IN  IF isNewTouch(td, i) THEN print(noteOn(s0, 0, n, 96), "on", n)
        ELSE IF isNewRelease(td, i) THEN noteOff(s0, 0, n, 96)
        ELSE s0

\* The body of the for loop of the newer sketch, for loop index i.
body(st, i, td, melodic) ==
  LET n  == IF melodic THEN At(MELODIC_NOTES, 11 - i) ELSE At(PERCUSSION_NOTES, 11 - i)
      s0 == [st EXCEPT !.note = n, !.i = i, !.scan = Append(@, <<i, 11 - i>>)]
  IN  IF isNewTouch(td, i)
          THEN LET a == noteOn(s0, 0, n, 96)
               IN  IF ~MPR121_DATASTREAM_ENABLE THEN print(a, "on", n) ELSE a
        ELSE IF isNewRelease(td, i)
          THEN LET a == noteOff(s0, 0, n, 96)
               IN  IF ~MPR121_DATASTREAM_ENABLE THEN print(a, "off", n) ELSE a
        ELSE s0

\* forLoop visiting the electrodes from the last to the first.
RECURSIVE forLoop_descending(_, _, _, _)
forLoop_descending(st, i, td, melodic) ==
  IF i < 12 THEN forLoop_descending(body(st, 11 - i, td, melodic), i + 1, td, melodic)
  ELSE st

\* forLoop sending the instrument configuration again at the start of the pass.
RECURSIVE forLoop_reconfigure(_, _, _, _)
forLoop_reconfigure(st, i, td, melodic) ==
  IF i < 12
    THEN forLoop_reconfigure(
           body(IF i = 0 THEN setupMidi(st, melodic, 0) ELSE st, i, td, melodic),
           i + 1, td, melodic)
    ELSE st

\* forLoop with the test i <= 12: a 13th iteration subscripts the table with -1.
RECURSIVE forLoop_thirteen(_, _, _, _)
forLoop_thirteen(st, i, td, melodic) ==
  IF i < 12 THEN forLoop_thirteen(body(st, i, td, melodic), i + 1, td, melodic)
  ELSE [st EXCEPT !.i = 12, !.scan = Append(@, <<12, -1>>)]

\* for (int i=0; i< 12; i++) body
RECURSIVE forLoop(_, _, _, _)
forLoop(st, i, td, melodic) ==
  IF i < 12 THEN forLoop(body(st, i, td, melodic), i + 1, td, melodic) ELSE st

\* The body of the for loop of the older sketch.
body_v1(st, i, td) ==
  LET n  == At(whiteNotes, lastPin - i)
      s0 == [st EXCEPT !.note = n, !.i = i, !.scan = Append(@, <<i, lastPin - i>>)]
  IN  IF isNewTouch(td, i) THEN print(noteOn(s0, 0, n, 96), "on", n)
        ELSE IF isNewRelease(td, i) THEN print(noteOff(s0, 0, n, 96), "off", n)
        ELSE s0

\* for(int i=firstPin; i<=lastPin; i++) body
RECURSIVE forLoop_v1(_, _, _)
forLoop_v1(st, i, td) ==
  IF i <= lastPin THEN forLoop_v1(body_v1(st, i, td), i + 1, td) ELSE st

\* ------------------------------------------------------------------ actions
Programs == {0, 5}

KeySets == {k \in SUBSET Electrodes : Cardinality(k) <= MaxKeys}

\* Nothing sent yet.  on: the notes whose last message is a note-on; before:
\* the value of on when the most recent pass began; played: the notes that had
\* any message; ever: the electrodes found touched at any poll.
Silence == [on |-> {}, before |-> {}, played |-> {}, ever |-> {}]

\* The notes whose last message is a note-on after the events ev, from
\* position k on, reach a synthesizer on which the notes in on are sounding.
RECURSIVE SoundingAfter(_, _, _)
SoundingAfter(on, ev, k) ==
  IF k + 2 > Len(ev) THEN on
  ELSE IF ev[k][1] = "led" /\ ev[k][2] = HIGH /\ ev[k + 1][1] = "tx"
    THEN SoundingAfter(IF ev[k + 1][2] = 144 THEN on \cup {ev[k + 2][2]}
                       ELSE IF ev[k + 1][2] = 128 THEN on \ {ev[k + 2][2]}
                       ELSE on,
                       ev, k + 3)
  ELSE SoundingAfter(on, ev, k + 1)

\* The notes that have a note-on or note-off among the events ev.
NotesIn(ev) ==
  {ev[k + 2][2] : k \in {j \in 1..(Len(ev) - 2) :
      ev[j][1] = "led" /\ ev[j][2] = HIGH /\ ev[j + 1][1] = "tx" /\ ev[j + 1][2] \in {144, 128}}}

\* heard after a pass that polled the touch status td and wrote the events ev.
HeardAfter(td, ev) ==
  [on     |-> SoundingAfter(heard.on, ev, 1),
   before |-> heard.on,
   played |-> heard.played \cup NotesIn(ev),
   ever   |-> heard.ever \cup td.lastTouchData \cup td.touchData]

NoTwin == [started |-> FALSE, touchData |-> {}, lastTouchData |-> {}, events |-> <<>>]

Init ==
  /\ sketch \in {1, 2}
  /\ MELODIC_INSTRUMENT \in (IF sketch = 1 THEN {TRUE} ELSE BOOLEAN)
  /\ INSTRUMENT \in (IF sketch = 1 THEN {4} ELSE Programs)
  /\ keys \in KeySets
  /\ pc = "setup"
  /\ touchData = {}
  /\ lastTouchData = {}
  /\ note = 0
  /\ led = LOW
  /\ events = <<>>
  /\ op = "none"
  /\ pass = "none"
  /\ call = <<>>
  /\ head = <<>>
  /\ scan = <<>>
  /\ twin = NoTwin
  /\ heard = Silence

Config == <<sketch, MELODIC_INSTRUMENT, INSTRUMENT, keys, call, twin, heard>>

\* SetupFails without the while(1): setup reports and carries on.
SetupFails_fallThrough ==
  /\ pc = "setup"
  /\ \E st \in {setupMidi(print(Machine, "error", 0), MELODIC_INSTRUMENT, INSTRUMENT)} :
       /\ events' = st.events
       /\ led' = st.led
       /\ head' = HeadAfter(st.events)
       /\ scan' = st.scan
  /\ pc' = "loop"
  /\ op' = "setup"
  /\ UNCHANGED <<Config, touchData, lastTouchData, note, pass>>

\* setup of either sketch when MPR121.begin fails: report and while(1).
SetupFails ==
  /\ pc = "setup"
  /\ events' = print(Machine, "error", 0).events
  /\ pc' = "halted"
  /\ op' = "setup"
  /\ UNCHANGED <<Config, touchData, lastTouchData, note, led, pass, head, scan>>

\* setup of the newer sketch, MPR121.begin succeeding.
setup ==
  /\ pc = "setup"
  /\ sketch = 2
  /\ LET s1 == digitalWrite(Machine, HIGH)
         s2 == digitalWrite(s1, LOW)
         st == setupMidi(s2, MELODIC_INSTRUMENT, INSTRUMENT)
     IN  /\ events' = st.events
         /\ led' = st.led
         /\ head' = HeadAfter(st.events)
         /\ scan' = st.scan
  /\ pc' = "loop"
  /\ op' = "setup"
  /\ UNCHANGED <<Config, touchData, lastTouchData, note, pass>>

\* setup of the older sketch: the initial data update reads the touch status m.
setup_v1 ==
  /\ pc = "setup"
  /\ sketch = 1
  /\ \E m \in SUBSET keys :
       LET td == updateTouchData(MPR121, m)
       IN  /\ touchData' = td.touchData
           /\ lastTouchData' = td.lastTouchData
  /\ LET st == setupMidi_v1(Machine)
     IN  /\ events' = st.events
         /\ led' = st.led
         /\ head' = HeadAfter(st.events)
         /\ scan' = st.scan
  /\ pc' = "loop"
  /\ op' = "setup"
  /\ UNCHANGED <<Config, note, pass>>

\* One call of loop of the newer sketch; m is the touch status the sensor reports.
loop ==
  /\ pc = "loop"
  /\ sketch = 2
  /\ \E m \in SUBSET keys :
       \E td \in {updateTouchData(MPR121, m)} :
       \E st \in {forLoop(Machine, 0, td, MELODIC_INSTRUMENT)} :
           /\ touchData' = td.touchData
           /\ lastTouchData' = td.lastTouchData
           /\ events' = st.events
           /\ led' = st.led
           /\ note' = st.note
           /\ head' = HeadAfter(st.events)
           /\ scan' = st.scan
  /\ op' = "pass"
  /\ pass' = IF pass = "none" THEN "first" ELSE "later"
  /\ UNCHANGED <<Config, pc>>

\* One call of loop of the older sketch with touchStatusChanged() true.
loop_v1 ==
  /\ pc = "loop"
  /\ sketch = 1
  /\ \E m \in SUBSET keys :
       \E td \in {updateTouchData(MPR121, m)} :
       \E st \in {forLoop_v1(Machine, firstPin, td)} :
           /\ touchData' = td.touchData
           /\ lastTouchData' = td.lastTouchData
           /\ events' = st.events
           /\ led' = st.led
           /\ note' = st.note
           /\ head' = HeadAfter(st.events)
           /\ scan' = st.scan
  /\ op' = "pass"
  /\ pass' = IF pass = "none" THEN "first" ELSE "later"
  /\ UNCHANGED <<Config, pc>>

\* One call of loop of the older sketch with touchStatusChanged() false.
loopIdle_v1 ==
  /\ pc = "loop"
  /\ sketch = 1
  /\ events' = <<>>
  /\ scan' = <<>>
  /\ op' = "skip"
  /\ UNCHANGED <<Config, pc, touchData, lastTouchData, note, led, pass, head>>

Next == SetupFails \/ setup \/ setup_v1 \/ loop \/ loop_v1 \/ loopIdle_v1

Spec == Init /\ [][Next]_vars

\* ------------------------------------------------- sensor read failures
\* One call of loop of the newer sketch whose sensor read fails.  updateAll()
\* returns void and loop tests nothing after it, so the pass runs on whatever
\* status m the tracker holds after the failed read.
loopReadFails ==
  /\ pc = "loop"
  /\ sketch = 2
  /\ \E m \in SUBSET keys :
       \E td \in {updateTouchData(MPR121, m)} :
       \E st \in {forLoop(Machine, 0, td, MELODIC_INSTRUMENT)} :
           /\ touchData' = td.touchData
           /\ lastTouchData' = td.lastTouchData
           /\ events' = st.events
           /\ led' = st.led
           /\ note' = st.note
           /\ head' = HeadAfter(st.events)
           /\ scan' = st.scan
  /\ op' = "readfail"
  /\ pass' = IF pass = "none" THEN "first" ELSE "later"
  /\ UNCHANGED <<Config, pc>>

NextFault == Next \/ loopReadFails

SpecFault == Init /\ [][NextFault]_vars

\* ------------------------------------------------- gated and ungated loop
\* if(MPR121.touchStatusChanged()) of the older loop: the signal is raised when
\* the sensor's status m differs from the status last read, and may be raised
\* without such a difference (irq).
touchStatusChanged(td, m, irq) == irq \/ m # td.touchData

\* One tick on which both loops are called with the sensor reporting status m:
\* the older loop, which polls and dispatches only when touchStatusChanged(),
\* in the sketch's own variables, and the newer loop, which always does, in
\* twin.  Both start from the tracker as setup left it and send on channel 0
\* from their own note tables.
tick ==
  /\ pc = "loop"
  /\ sketch = 1
  /\ \E m \in SUBSET keys : \E irq \in BOOLEAN :
       \E ud \in {updateTouchData(IF twin.started THEN twin ELSE MPR121, m)} :
       \E ust \in {forLoop(Machine, 0, ud, TRUE)} :
         /\ twin' = [started |-> TRUE, touchData |-> ud.touchData,
                     lastTouchData |-> ud.lastTouchData, events |-> ust.events]
         /\ IF touchStatusChanged(MPR121, m, irq)
              THEN \E td \in {updateTouchData(MPR121, m)} :
                   \E st \in {forLoop_v1(Machine, firstPin, td)} :
                     /\ touchData' = td.touchData
                     /\ lastTouchData' = td.lastTouchData
                     /\ events' = st.events
                     /\ led' = st.led
                     /\ note' = st.note
                     /\ head' = HeadAfter(st.events)
                     /\ scan' = st.scan
                     /\ op' = "pass"
                     /\ pass' = IF pass = "none" THEN "first" ELSE "later"
              ELSE /\ events' = <<>>
                   /\ scan' = <<>>
                   /\ op' = "skip"
                   /\ UNCHANGED <<touchData, lastTouchData, note, led, pass, head>>
  /\ UNCHANGED <<sketch, MELODIC_INSTRUMENT, INSTRUMENT, keys, call, pc, heard>>

InitGate == Init /\ sketch = 1

NextGate == SetupFails \/ setup_v1 \/ tick

SpecGate == InitGate /\ [][NextGate]_vars

\* ------------------------------------------------- what the synthesizer hears
\* loop of the newer sketch, with the messages of the pass applied to heard.
loopHeard ==
  /\ pc = "loop"
  /\ sketch = 2
  /\ \E m \in SUBSET keys :
       \E td \in {updateTouchData(MPR121, m)} :
       \E st \in {forLoop(Machine, 0, td, MELODIC_INSTRUMENT)} :
           /\ touchData' = td.touchData
           /\ lastTouchData' = td.lastTouchData
           /\ events' = st.events
           /\ led' = st.led
           /\ note' = st.note
           /\ head' = HeadAfter(st.events)
           /\ scan' = st.scan
           /\ heard' = HeardAfter(td, st.events)
  /\ op' = "pass"
  /\ pass' = IF pass = "none" THEN "first" ELSE "later"
  /\ UNCHANGED <<sketch, MELODIC_INSTRUMENT, INSTRUMENT, keys, call, twin, pc>>

\* loop of the older sketch with touchStatusChanged() true, likewise.  The
\* status read by setup's poll is td.lastTouchData of the first pass.
loopHeard_v1 ==
  /\ pc = "loop"
  /\ sketch = 1
  /\ \E m \in SUBSET keys :
       \E td \in {updateTouchData(MPR121, m)} :
       \E st \in {forLoop_v1(Machine, firstPin, td)} :
           /\ touchData' = td.touchData
           /\ lastTouchData' = td.lastTouchData
           /\ events' = st.events
           /\ led' = st.led
           /\ note' = st.note
           /\ head' = HeadAfter(st.events)
           /\ scan' = st.scan
           /\ heard' = HeardAfter(td, st.events)
  /\ op' = "pass"
  /\ pass' = IF pass = "none" THEN "first" ELSE "later"
  /\ UNCHANGED <<sketch, MELODIC_INSTRUMENT, INSTRUMENT, keys, call, twin, pc>>

NextHeard == SetupFails \/ setup \/ setup_v1 \/ loopHeard \/ loopHeard_v1 \/ loopIdle_v1

SpecHeard == Init /\ [][NextHeard]_vars

\* ------------------------------------------------- encoder called directly
\* The encoder's functions on arbitrary arguments: InitEnc draws one call,
\* the action for its function applies it.
DataSamples == {0, 1, 5, 60, 64, 96, 120, 127, 128, 255}
VelocitySamples == {0, 96, 127}

ElectrodeSamples == -3..14

EncCalls ==
  [f : {"talkMIDI"}, a : 0..255, b : DataSamples, c : DataSamples]
    \cup [f : {"noteOn", "noteOff"}, a : 0..15, b : 0..127, c : VelocitySamples]
    \cup [f : {"map"}, a : ElectrodeSamples, b : {0, 1}, c : {0}]

InitEnc ==
  /\ sketch = 2
  /\ MELODIC_INSTRUMENT = TRUE
  /\ INSTRUMENT = 0
  /\ keys = {}
  /\ pc = "call"
  /\ touchData = {}
  /\ lastTouchData = {}
  /\ note = 0
  /\ led = LOW
  /\ events = <<>>
  /\ op = "none"
  /\ pass = "none"
  /\ call \in EncCalls
  /\ head = <<>>
  /\ scan = <<>>
  /\ twin = NoTwin
  /\ heard = Silence

Returned(st) ==
  /\ events' = st.events
  /\ led' = st.led
  /\ head' = HeadAfter(st.events)
  /\ scan' = st.scan
  /\ pc' = "done"
  /\ op' = call.f
  /\ UNCHANGED <<Config, touchData, lastTouchData, note, pass>>

callTalkMIDI ==
  /\ pc = "call"
  /\ call.f = "talkMIDI"
  /\ Returned(talkMIDI(Machine, call.a, call.b, call.c))

callNoteOn ==
  /\ pc = "call"
  /\ call.f = "noteOn"
  /\ Returned(noteOn(Machine, call.a, call.b, call.c))

callNoteOff ==
  /\ pc = "call"
  /\ call.f = "noteOff"
  /\ Returned(noteOff(Machine, call.a, call.b, call.c))

\* The table lookup of the for loop's body, note = TABLE[11-i], applied to the
\* electrode call.a in mode call.b (1 melodic, 0 percussion).  No test guards
\* the subscript; a read outside the array yields any byte.
callMap ==
  /\ pc = "call"
  /\ call.f = "map"
  /\ LET table == IF call.b = 1 THEN MELODIC_NOTES ELSE PERCUSSION_NOTES
         idx   == 11 - call.a
     IN  /\ scan' = <<<<call.a, idx>>>>
         /\ note' \in (IF idx \in 0..(Len(table) - 1) THEN {At(table, idx)} ELSE 0..255)
  /\ events' = <<>>
  /\ pc' = "done"
  /\ op' = call.f
  /\ UNCHANGED <<Config, touchData, lastTouchData, led, pass, head>>

NextEnc == callTalkMIDI \/ callNoteOn \/ callNoteOff \/ callMap

SpecEnc == InitEnc /\ [][NextEnc]_vars

\* ------------------------------------------------------------ observations
\* The bytes the most recent handler wrote to the MIDI sink, in order.
Tx ==
  LET s == SelectSeq(events, LAMBDA x : x[1] = "tx")
  IN  [k \in 1..Len(s) |-> s[k][2]]

\* The bytes written to the MIDI sink during loop index e, in order.
TxOf(e) ==
  LET s == SelectSeq(events, LAMBDA x : x[1] = "tx" /\ x[3] = e)
  IN  [k \in 1..Len(s) |-> s[k][2]]

\* The number of talkMIDI calls made during loop index e (each raises the LED once).
CallsOf(e) ==
  Cardinality({k \in 1..Len(events) : events[k] = <<"led", HIGH, e>>})

\* The note of electrode e, electrode by electrode (electrode 0 first).
NoteOfElectrode(e) ==
  IF sketch = 1 THEN <<79, 77, 76, 74, 72, 71, 69, 67, 65, 64, 62, 60>>[e + 1]
  ELSE IF MELODIC_INSTRUMENT THEN 71 - e
  ELSE <<58, 76, 83, 27, 28, 43, 51, 41, 36, 57, 35, 49>>[e + 1]

\* ------------------------------------------------------------------ claims
\* C1: talkMIDI(cmd, data1, data2) writes exactly [cmd, data1, data2] when the
\* high nibble of cmd is at most 0xB and exactly [cmd, data1] otherwise, and no
\* other byte; 0xB0..0xBF get two data bytes, 0xC0..0xFF get one.
C1_TalkMIDIFraming ==
  (pc = "done" /\ call.f = "talkMIDI") =>
    /\ Tx = IF call.a \div 16 <= 11 THEN <<call.a, call.b, call.c>>
            ELSE <<call.a, call.b>>
    /\ call.a \in 176..191 => Len(Tx) = 3
    /\ call.a \in 192..255 => Len(Tx) = 2

C1_Witness ==
  /\ pc = "done"
  /\ call = [f |-> "talkMIDI", a |-> 192, b |-> 5, c |-> 0]
  /\ Tx = <<192, 5>>

\* C6: noteOn(channel, note, velocity) with channel in 0..15 and note, velocity
\* in 0..127 writes exactly the 3 bytes [0x90 + channel, note, velocity].
C6_NoteOnBytes ==
  (pc = "done" /\ call.f = "noteOn") => Tx = <<144 + call.a, call.b, call.c>>

C6_Witness ==
  /\ pc = "done"
  /\ call = [f |-> "noteOn", a |-> 0, b |-> 60, c |-> 96]
  /\ Tx = <<144, 60, 96>>

\* C7: noteOff(channel, note, velocity) with channel in 0..15 and note, velocity
\* in 0..127 writes exactly the 3 bytes [0x80 + channel, note, velocity].
C7_NoteOffBytes ==
  (pc = "done" /\ call.f = "noteOff") => Tx = <<128 + call.a, call.b, call.c>>

C7_Witness ==
  /\ pc = "done"
  /\ call = [f |-> "noteOff", a |-> 15, b |-> 60, c |-> 96]
  /\ Tx = <<143, 60, 96>>

\* The number of data bytes of a MIDI channel-voice message, by the high nibble
\* of its status byte: two for 0x8, 0x9, 0xA, 0xB and 0xE, one for 0xC and 0xD.
MidiDataBytes(status) == IF status \div 16 \in {12, 13} THEN 1 ELSE 2

\* C8: for every channel-voice status byte (0x80..0xEF) talkMIDI writes the
\* status byte followed by the number of data bytes its class has in MIDI.
C8_WellFormedPerClass ==
  (pc = "done" /\ call.f = "talkMIDI" /\ call.a \in 128..239) =>
    Len(Tx) = 1 + MidiDataBytes(call.a)

\* C2: in a dispatch pass, an electrode that went from untouched to touched
\* gets exactly one note-on [0x90, note, 0x60]; one that is still touched gets
\* no message; one that went from touched to untouched gets exactly one
\* note-off [0x80, note, 0x60].  Electrode 11 in melodic mode uses note 0x3C.
C2_EdgeMessages ==
  op = "pass" =>
    /\ \A e \in Electrodes :
         /\ (e \in touchData /\ e \notin lastTouchData) =>
              (TxOf(e) = <<144, NoteOfElectrode(e), 96>> /\ CallsOf(e) = 1)
         /\ (e \in touchData /\ e \in lastTouchData) =>
              (TxOf(e) = <<>> /\ CallsOf(e) = 0)
         /\ (e \notin touchData /\ e \in lastTouchData) =>
              (TxOf(e) = <<128, NoteOfElectrode(e), 96>> /\ CallsOf(e) = 1)
    /\ (MELODIC_INSTRUMENT /\ 11 \in touchData /\ 11 \notin lastTouchData) =>
         TxOf(11) = <<144, 60, 96>>
    /\ (MELODIC_INSTRUMENT /\ 11 \notin touchData /\ 11 \in lastTouchData) =>
         TxOf(11) = <<128, 60, 96>>

\* Electrode 11 released in melodic mode after having been held over two polls.
C2_Witness ==
  /\ op = "pass"
  /\ sketch = 2
  /\ MELODIC_INSTRUMENT
  /\ pass = "later"
  /\ 11 \in lastTouchData
  /\ 11 \notin touchData
  /\ Tx = <<128, 60, 96>>

\* C3: in a dispatch pass at most one message is emitted per electrode; a
\* note-on and a note-off of one electrode are never both emitted.
C3_AtMostOneMessage ==
  op = "pass" =>
    \A e \in Electrodes :
      /\ CallsOf(e) <= 1
      /\ Len(TxOf(e)) <= 3
      /\ ~(\E j, k \in 1..Len(events) :
             /\ events[j] = <<"tx", 144, e>>
             /\ events[k] = <<"tx", 128, e>>)

\* A pass with a note-on for one electrode and a note-off for another.
C3_Witness ==
  /\ op = "pass"
  /\ \E e1, e2 \in Electrodes :
       /\ e1 # e2
       /\ Len(TxOf(e1)) = 3
       /\ Len(TxOf(e2)) = 3
       /\ TxOf(e1)[1] = 144
       /\ TxOf(e2)[1] = 128
       /\ CallsOf(e1) = 1
       /\ CallsOf(e2) = 1

\* C4: setupMidi emits exactly [0xB0,0x07,0x7F], then [0xB0,0x00,b] with b = 0x00
\* in melodic and 0x78 in percussion mode, then [0xC0, program]; percussion
\* mode with program 5 gives [0xB0,0x07,0x7F,0xB0,0x00,0x78,0xC0,0x05].
C4_StartupSequence ==
  (op = "setup" /\ pc = "loop") =>
    /\ Tx = <<176, 7, 127, 176, 0, (IF MELODIC_INSTRUMENT THEN 0 ELSE 120), 192, INSTRUMENT>>
    /\ Cardinality({k \in 1..Len(events) : events[k][1] = "tx"}) = 8
    /\ (~MELODIC_INSTRUMENT /\ INSTRUMENT = 5) =>
         Tx = <<176, 7, 127, 176, 0, 120, 192, 5>>

C4_Witness ==
  /\ op = "setup"
  /\ pc = "loop"
  /\ ~MELODIC_INSTRUMENT
  /\ INSTRUMENT = 5
  /\ Tx = <<176, 7, 127, 176, 0, 120, 192, 5>>

\* C5: the note the dispatcher sends for electrode e is entry 11 - e of the
\* table of the configured mode: melodic 11 -> 60, 0 -> 71; percussion
\* 11 -> 49, 0 -> 58.
C5_ReversedTable ==
  op = "pass" =>
    \A e \in Electrodes :
      TxOf(e) # <<>> =>
        /\ TxOf(e)[2] = NoteOfElectrode(e)
        /\ (sketch = 2 /\ MELODIC_INSTRUMENT) =>
             /\ TxOf(e)[2] = MELODIC_NOTES[12 - e]
             /\ e = 11 => TxOf(e)[2] = 60
             /\ e = 0 => TxOf(e)[2] = 71
        /\ (sketch = 2 /\ ~MELODIC_INSTRUMENT) =>
             /\ TxOf(e)[2] = PERCUSSION_NOTES[12 - e]
             /\ e = 11 => TxOf(e)[2] = 49
             /\ e = 0 => TxOf(e)[2] = 58

\* Percussion mode: electrodes 0 and 11 touched in the same pass.
C5_Witness ==
  /\ op = "pass"
  /\ sketch = 2
  /\ ~MELODIC_INSTRUMENT
  /\ TxOf(0) = <<144, 58, 96>>
  /\ TxOf(11) = <<144, 49, 96>>

\* C9: the messages of a dispatch pass are emitted in ascending electrode
\* index: for electrodes i < j that both have an edge, the 3 bytes of i's
\* message are all written before the first byte of j's.
C9_AscendingOrder ==
  op = "pass" =>
    LET edge(e) == (e \in touchData) # (e \in lastTouchData)
    IN  /\ \A e \in Electrodes : edge(e) => Len(TxOf(e)) = 3
        /\ \A j, k \in 1..Len(events) :
             (events[j][1] = "tx" /\ events[k][1] = "tx" /\ events[j][3] < events[k][3])
               => j < k
        /\ \A i, j \in Electrodes :
             (i < j /\ edge(i) /\ edge(j)) =>
               \E k \in 0..(Len(Tx) - 6) :
                 /\ SubSeq(Tx, k + 1, k + 3) = TxOf(i)
                 /\ \E l \in (k + 3)..(Len(Tx) - 3) : SubSeq(Tx, l + 1, l + 3) = TxOf(j)

\* A pass in which a lower electrode is released and a higher one touched.
C9_Witness ==
  /\ op = "pass"
  /\ \E i, j \in Electrodes :
       /\ i < j
       /\ i \in lastTouchData /\ i \notin touchData
       /\ j \in touchData /\ j \notin lastTouchData
       /\ Tx = <<128, NoteOfElectrode(i), 96, 144, NoteOfElectrode(j), 96>>

\* C10: in the first dispatch pass every electrode that is touched gets a
\* note-on, whatever happened before the pass.
C10_FirstPassNoteOn ==
  (op = "pass" /\ pass = "first") =>
    \A e \in touchData : TxOf(e) = <<144, NoteOfElectrode(e), 96>>

\* What loop index e wrote to the MIDI sink, the indicator or the log.
OutputOf(e) ==
  SelectSeq(events, LAMBDA x : x[3] = e /\ x[1] \in {"led", "tx", "on", "off"})

\* C11: an electrode whose touch state is the same at this poll as at the
\* previous one causes no encoder call and no report; a pass in which no
\* electrode changed writes no byte, and a call of loop that does not poll
\* writes nothing.
C11_NoEdgeNoOutput ==
  /\ op = "pass" =>
       /\ \A e \in Electrodes :
            ((e \in touchData) = (e \in lastTouchData)) => OutputOf(e) = <<>>
       /\ touchData = lastTouchData => Tx = <<>>
  /\ op = "skip" => events = <<>>

\* A pass with electrodes held and nothing changed.
C11_Witness ==
  /\ op = "pass"
  /\ touchData # {}
  /\ touchData = lastTouchData
  /\ Tx = <<>>

\* C12: in every reachable state each message written to the MIDI sink starts
\* with a status byte (high bit set, channel 0 in the low 4 bits) and every
\* byte after it is a data byte in 0..127.
C12_ByteRanges ==
  \A k \in 1..Len(events) :
    events[k][1] = "tx" =>
      IF k > 1 /\ events[k - 1][1] = "led"
        THEN /\ events[k][2] \in 128..255
             /\ events[k][2] % 16 = 0
             /\ events[k][2] \div 16 \in 8..14
        ELSE /\ k > 1
             /\ events[k - 1][1] = "tx"
             /\ events[k][2] \in 0..127

\* A later pass that sent a note-on and a note-off.
C12_Witness ==
  /\ op = "pass"
  /\ pass = "later"
  /\ Len(Tx) = 6
  /\ Tx[1] = 128
  /\ Tx[4] = 144

\* The notes of the table of the configured mode.
TableNotes == {NoteOfElectrode(e) : e \in Electrodes}

\* C13: the instrument configuration is the first thing on the MIDI sink and
\* is sent once: nothing is written before setup, the first 8 bytes are the
\* startup sequence, and a dispatch pass writes only 3-byte note-on / note-off
\* messages on channel 0 with velocity 0x60 and a note of the configured table.
C13_ConfigurationFirst ==
  /\ pc = "setup" => head = <<>>
  /\ pc = "loop" =>
       head = <<176, 7, 127, 176, 0, (IF MELODIC_INSTRUMENT THEN 0 ELSE 120), 192, INSTRUMENT>>
  /\ op = "pass" =>
       /\ Len(Tx) % 3 = 0
       /\ Cardinality({k \in 1..Len(events) : events[k][1] = "led" /\ events[k][2] = HIGH})
            = Len(Tx) \div 3
       /\ \A j \in 0..((Len(Tx) \div 3) - 1) :
            /\ Tx[3 * j + 1] \in {144, 128}
            /\ Tx[3 * j + 2] \in TableNotes
            /\ Tx[3 * j + 3] = 96

\* Percussion mode with program 5, in a later pass that sent one note-on.
C13_Witness ==
  /\ pc = "loop"
  /\ op = "pass"
  /\ pass = "later"
  /\ head = <<176, 7, 127, 176, 0, 120, 192, 5>>
  /\ Tx = <<144, 58, 96>>

\* C14: when MPR121.begin fails, setup reports the error and halts: the
\* configuration is not sent, no dispatch pass runs and the MIDI sink never
\* receives a byte.
C14_HaltOnSensorFailure ==
  /\ (\E k \in 1..Len(events) : events[k][1] = "error") => pc = "halted"
  /\ pc = "halted" =>
       /\ Tx = <<>>
       /\ head = <<>>
       /\ scan = <<>>
       /\ pass = "none"
       /\ op = "setup"
       /\ ~ENABLED Next

\* setup has failed and halted.
C14_Witness ==
  /\ pc = "halted"
  /\ op = "setup"
  /\ events = <<<<"error", 0, -1>>>>
  /\ head = <<>>
  /\ scan = <<>>

\* C15: a failed sensor read is surfaced as an error and is not treated as a
\* poll: the pass reports the failure, sends no note-off and leaves the
\* retained touch state as it was.
C15_ReadFailureSurfaced ==
  op = "readfail" =>
    /\ \E k \in 1..Len(events) : events[k][1] = "error"
    /\ \A k \in 1..Len(events) : events[k][1] = "tx" => events[k][2] # 128
    /\ touchData = lastTouchData

TableLen == IF sketch = 1 THEN Len(whiteNotes)
            ELSE IF MELODIC_INSTRUMENT THEN Len(MELODIC_NOTES) ELSE Len(PERCUSSION_NOTES)

\* C20: a dispatch pass examines exactly the electrodes 0..11, once each and in
\* that order, subscripts the note table inside its bounds (with 11 - i) every
\* time, and ends after these 12 iterations having sent at most 12 messages.
C20_LoopBounds ==
  op = "pass" =>
    /\ Len(scan) = 12
    /\ \A k \in 1..Len(scan) :
         /\ scan[k][1] = k - 1
         /\ scan[k][2] = 11 - scan[k][1]
         /\ scan[k][2] \in 0..(TableLen - 1)
    /\ Len(Tx) % 3 = 0
    /\ Len(Tx) \div 3 <= 12

\* A pass of the newer sketch that sent two messages and ended on electrode 11.
C20_Witness ==
  /\ op = "pass"
  /\ sketch = 2
  /\ Len(scan) = 12
  /\ scan[1] = <<0, 11>>
  /\ scan[12] = <<11, 0>>
  /\ Len(Tx) = 6

\* The level of the indicator when the k-th event of the handler happens: the
\* level of the last digitalWrite before it, -1 when the handler has made none.
LedBefore(k) ==
  LET js == {j \in 1..(k - 1) : events[j][1] = "led"}
  IN  IF js = {} THEN -1 ELSE events[CHOOSE j \in js : \A m \in js : m <= j][2]

\* C17: the indicator brackets every message: it is raised immediately before
\* the message's first byte and lowered immediately after its last, every byte
\* is written while it is high, the reports are made while it is low, and it
\* is low between handlers once setup has completed.
C17_IndicatorBrackets ==
  /\ \A k \in 1..Len(events) :
       /\ events[k][1] = "tx" =>
            /\ LedBefore(k) = HIGH
            /\ k > 1
            /\ \/ events[k - 1][1] = "tx"
               \/ events[k - 1][1] = "led" /\ events[k - 1][2] = HIGH
            /\ k < Len(events)
            /\ \/ events[k + 1][1] = "tx"
               \/ events[k + 1][1] = "led" /\ events[k + 1][2] = LOW
            /\ k > 3 => \E j \in (k - 3)..(k - 1) : events[j][1] = "led"
       /\ events[k][1] \in {"on", "off"} => LedBefore(k) = LOW
  /\ pc = "loop" => led = LOW

\* Between two passes, after a pass that sent one note-on.
C17_Witness ==
  /\ pc = "loop"
  /\ op = "pass"
  /\ led = LOW
  /\ Len(events) = 6
  /\ events[1][1] = "led" /\ events[1][2] = HIGH
  /\ events[2] = <<"tx", 144, events[1][3]>>
  /\ events[5][1] = "led" /\ events[5][2] = LOW

\* The reports among the events of the most recent handler.
Reports == SelectSeq(events, LAMBDA x : x[1] \in {"on", "off"})

\* C19: in a dispatch pass every note message is followed at once, in the same
\* iteration of the loop, by one report with the message's note and the
\* matching kind, every report follows its message in this way, and the
\* pass makes as many reports as it sends messages.
C19_ReportPerMessage ==
  op = "pass" =>
    /\ \A k \in 1..Len(events) :
         /\ (events[k][1] = "led" /\ events[k][2] = LOW) =>
              /\ k > 4
              /\ k < Len(events)
              /\ events[k - 3][1] = "tx"
              /\ events[k - 3][2] \in {144, 128}
              /\ events[k + 1] = <<(IF events[k - 3][2] = 144 THEN "on" ELSE "off"),
                                   events[k - 2][2], events[k][3]>>
         /\ events[k][1] \in {"on", "off"} =>
              /\ k > 1
              /\ events[k - 1] = <<"led", LOW, events[k][3]>>
    /\ Len(Reports) * 3 = Len(Tx)

\* A pass that reported a release and then a touch.
C19_Witness ==
  /\ op = "pass"
  /\ Len(Reports) = 2
  /\ Reports[1][1] = "off"
  /\ Reports[2][1] = "on"
  /\ Len(Tx) = 6

\* The note messages among the events ev, in order, each as <<status byte,
\* electrode, velocity>>: the electrode stands for the note, which each loop
\* takes from its own table at the same position.
NoteMessages(ev) ==
  LET ks == {k \in 1..Len(ev) : ev[k][1] = "tx" /\ k > 1 /\ ev[k - 1][1] = "led"}
      Nth[n \in 0..Cardinality(ks)] ==
        IF n = 0 THEN 0
        ELSE CHOOSE k \in ks : k > Nth[n - 1] /\ \A j \in ks : j > Nth[n - 1] => k <= j
  IN  [n \in 1..Cardinality(ks) |-> <<ev[Nth[n]][2], ev[Nth[n]][3], ev[Nth[n] + 2][2]>>]

\* C18: on every tick the gated loop and the ungated loop send the same note
\* messages, whether the gated loop polled on that tick or skipped it.
C18_GateEquivalence ==
  op \in {"pass", "skip"} => NoteMessages(events) = NoteMessages(twin.events)

\* The gated loop has skipped a tick on which the ungated loop polled, with an
\* electrode held since an earlier tick.
C18_Witness ==
  /\ op = "skip"
  /\ twin.started
  /\ touchData # {}
  /\ touchData = twin.touchData
  /\ lastTouchData # twin.lastTouchData
  /\ twin.events = <<>>

\* C21: after every completed dispatch pass the sounding notes are exactly the
\* notes of the touched electrodes: for every electrode e the last message
\* for its note is a note-on if and only if e was touched at the most recent
\* poll, and its note has had no message if e was never found touched.
C21_SoundingIsTouched ==
  op = "pass" =>
    \A e \in Electrodes :
      /\ (NoteOfElectrode(e) \in heard.on) = (e \in touchData)
      /\ e \notin heard.ever => NoteOfElectrode(e) \notin heard.played

\* The note table the configured sketch and mode read.
ConfiguredTable ==
  IF sketch = 1 THEN whiteNotes
  ELSE IF MELODIC_INSTRUMENT THEN MELODIC_NOTES ELSE PERCUSSION_NOTES

\* The positions in events of the LED write that opens a note message.
NoteMessageStarts ==
  {k \in 1..(Len(events) - 2) :
     /\ events[k][1] = "led" /\ events[k][2] = HIGH
     /\ events[k + 1][1] = "tx" /\ events[k + 1][2] \in {144, 128}}

\* C22: no two electrodes share a note in the configured table; in a pass no
\* note-off carries the note of an electrode that stays touched; and for each
\* note the messages alternate note-on, note-off, beginning with note-on: a
\* note-on is sent only for a note that is not sounding, a note-off only for
\* one that is, and a pass sends at most one message for a note.
C22_NoteAlternation ==
  /\ \A i, j \in 0..11 : i # j => At(ConfiguredTable, i) # At(ConfiguredTable, j)
  /\ op = "pass" =>
       /\ \A e \in touchData \cap lastTouchData :
            \A k \in NoteMessageStarts :
              events[k + 2][2] = NoteOfElectrode(e) => events[k + 1][2] # 128
       /\ \A k \in NoteMessageStarts :
            /\ events[k + 1][2] = 144 => events[k + 2][2] \notin heard.before
            /\ events[k + 1][2] = 128 => events[k + 2][2] \in heard.before
            /\ \A j \in NoteMessageStarts : events[j + 2][2] = events[k + 2][2] => j = k

====
